---------------------------- MODULE Spec2Model ----------------------------
(***************************************************************************)
(* Model of tracker_backend.py: the reconciliation of cloud announcements  *)
(* with Terraform provider releases (process_features) and the incremental *)
(* merge of the results into the persisted file r2c_lag_data.json (main).  *)
(*                                                                         *)
(* Text is modelled by strings; Len, SubSeq and \o act on them as on       *)
(* sequences of characters.  Time is counted in ticks, TicksPerDay ticks   *)
(* to a day; a release's date is kept as its instant.                      *)
(***************************************************************************)
EXTENDS Integers, Sequences, FiniteSets, TLC

(***************************************************************************)
(* Bounds of the model.                                                    *)
(***************************************************************************)
TicksPerDay == 2
MaxRuns == 2
MaxBulkRuns == 3
StartTime == 9

(***************************************************************************)
(* Python's str operations on ASCII text.                                  *)
(***************************************************************************)
UpperAlpha == "ABCDEFGHIJKLMNOPQRSTUVWXYZ"
LowerAlpha == "abcdefghijklmnopqrstuvwxyz"
Digits == "0123456789"

CharAt(s, i) == SubSeq(s, i, i)

CharsOf(s) == {CharAt(s, i) : i \in 1..Len(s)}

UpperChars == CharsOf(UpperAlpha)

AlnumChars == CharsOf(UpperAlpha) \cup CharsOf(LowerAlpha) \cup CharsOf(Digits)

\* c.lower() for each upper-case letter
LowerOf ==
  [c \in UpperChars |->
     CharAt(LowerAlpha, CHOOSE i \in 1..Len(UpperAlpha) : CharAt(UpperAlpha, i) = c)]

\* c.lower() for one character
LowerChar(c) == IF c \in UpperChars THEN LowerOf[c] ELSE c

RECURSIVE Lower(_)
\* s.lower()
Lower(s) == IF s = "" THEN "" ELSE LowerChar(CharAt(s, 1)) \o Lower(SubSeq(s, 2, Len(s)))

\* the class [a-zA-Z0-9]
IsAlnum(c) == c \in AlnumChars

\* the class \w
IsWordChar(c) == IsAlnum(c) \/ c = "_"

\* s[:n]
Prefix(s, n) == SubSeq(s, 1, IF Len(s) < n THEN Len(s) ELSE n)

\* t in s, for strings
Contains(s, t) == \E i \in 1..(Len(s) - Len(t) + 1) : SubSeq(s, i, i + Len(t) - 1) = t

\* t.endswith('s')
EndsWithS(t) == Len(t) >= 1 /\ CharAt(t, Len(t)) = "s"

RECURSIVE FindAllWords(_, _, _)
\* re.findall(r'\w+', s): the maximal runs of word characters, from position i,
\* cur being the run that is open
FindAllWords(s, i, cur) ==
  IF i > Len(s)
    THEN (IF cur = "" THEN {} ELSE {cur})
    ELSE IF IsWordChar(CharAt(s, i))
      THEN FindAllWords(s, i + 1, cur \o CharAt(s, i))
      ELSE (IF cur = "" THEN {} ELSE {cur}) \cup FindAllWords(s, i + 1, "")

RECURSIVE SubNonAlnum(_)
\* re.sub(r'[^a-zA-Z0-9]', '-', s)
SubNonAlnum(s) ==
  IF s = "" THEN ""
  ELSE (IF IsAlnum(CharAt(s, 1)) THEN CharAt(s, 1) ELSE "-") \o SubNonAlnum(SubSeq(s, 2, Len(s)))

(***************************************************************************)
(* Configuration.                                                          *)
(***************************************************************************)
CLOUD_CONFIG ==
  [aws |->
     [stop_words |-> {"amazon", "aws", "now", "supports", "available", "introducing",
                      "general", "availability", "for", "with", "announcing", "new",
                      "capabilities", "feature", "region", "launch"},
      resource_prefix |-> "aws_"],
   azure |->
     [stop_words |-> {"azure", "microsoft", "public", "preview", "general",
                      "availability", "now", "available", "support", "in", "generally",
                      "updates", "update", "new", "announcing"},
      resource_prefix |-> "azurerm_"],
   gcp |->
     [stop_words |-> {"google", "cloud", "platform", "gcp", "beta", "ga", "release",
                      "notes", "available", "support", "feature", "launch", "new",
                      "announcing"},
      resource_prefix |-> "google_"]]

SYNONYMS ==
  [s \in {"elastic kubernetes service", "kubernetes", "elastic compute cloud", "ec2",
          "simple storage service", "relational database service", "lambda", "dynamodb",
          "cloudwatch", "identity and access management", "bedrock", "sagemaker", "vpc",
          "compute engine", "kubernetes engine", "cloud storage", "cloud sql",
          "cloud run", "bigquery", "security command center", "vpc service controls",
          "cloud functions", "artifact registry", "kubernetes service", "aks",
          "cosmos db", "blob storage", "virtual machines", "virtual network"} |->
     CASE s = "elastic kubernetes service" -> "eks"
       [] s = "kubernetes" -> "eks"
       [] s = "elastic compute cloud" -> "ec2"
       [] s = "simple storage service" -> "s3"
       [] s = "relational database service" -> "rds"
       [] s = "identity and access management" -> "iam"
       [] s = "compute engine" -> "compute"
       [] s = "kubernetes engine" -> "container"
       [] s = "cloud storage" -> "storage"
       [] s = "cloud sql" -> "sql"
       [] s = "cloud run" -> "cloudrun"
       [] s = "security command center" -> "scc"
       [] s = "vpc service controls" -> "vpcsc"
       [] s = "cloud functions" -> "cloudfunctions"
       [] s = "artifact registry" -> "artifactregistry"
       [] s = "kubernetes service" -> "kubernetes"
       [] s = "aks" -> "kubernetes"
       [] s = "cosmos db" -> "cosmosdb"
       [] s = "blob storage" -> "storage"
       [] s = "virtual machines" -> "virtual_machine"
       [] s = "virtual network" -> "virtual_network"
       [] OTHER -> s]

\* SYNONYMS.get(service_raw, service_raw)
SynonymsGet(service_raw) ==
  IF service_raw \in DOMAIN SYNONYMS THEN SYNONYMS[service_raw] ELSE service_raw

(***************************************************************************)
(* Datetimes.  A datetime is [wall |-> wall-clock reading in ticks,        *)
(* tzinfo |-> <<>> when naive, <<its UTC offset in ticks>> when aware].    *)
(* Aware datetimes compare and subtract by instant (wall - offset) and     *)
(* format by wall clock.  None is the absent value.                        *)
(***************************************************************************)
None == [none |-> TRUE]

UTC == <<0>>

\* the instant of an aware datetime
Instant(dt) == dt.wall - dt.tzinfo[1]

\* datetime.now(timezone.utc) at instant now
NowUtc(now) == [wall |-> now, tzinfo |-> UTC]

\* make_aware(dt), called at instant now
make_aware(dt, now) ==
  IF dt = None THEN NowUtc(now)
  ELSE IF dt.tzinfo = <<>> THEN [dt EXCEPT !.tzinfo = UTC]
  ELSE dt

\* timedelta.days of (a - b), a and b instants: the floor of the difference in days
DeltaDays(a, b) == (a - b) \div TicksPerDay

\* dt.strftime("%Y-%m-%d"): the calendar day of the wall-clock reading, numbered
\* from the epoch.  For four-digit years the order of the strings is the order
\* of these day numbers.
strftime_ymd(dt) == dt.wall \div TicksPerDay

(***************************************************************************)
(* class FeatureRecord                                                     *)
(***************************************************************************)
\* FeatureRecord.__init__
FeatureRecord(cloud, service, feature, date, link, now) ==
  [cloud |-> cloud, service |-> service, feature |-> feature,
   ga_date |-> make_aware(date, now), link |-> link,
   tf_status |-> "Not Supported", tf_version |-> "--", lag_days |-> 0]

\* FeatureRecord.to_dict
to_dict(self) ==
  LET clean_name == Lower(SubNonAlnum(Prefix(self.feature, 25)))
  IN [id |-> self.cloud \o "-" \o clean_name, cloud |-> self.cloud,
      service |-> Prefix(self.service, 25), feature |-> self.feature,
      link |-> self.link, status |-> self.tf_status, version |-> self.tf_version,
      lag |-> self.lag_days, date |-> strftime_ymd(self.ga_date)]

(***************************************************************************)
(* process_features                                                        *)
(***************************************************************************)
\* a variant without the sort: the releases in the order they came in
SortReleasesOmitted(releases) == releases

\* releases.sort(key=lambda x: x['date']): stable, ascending.  The place of an
\* item is the number of items with a smaller key, plus those with an equal
\* key up to and including it.
SortReleases(releases) ==
  LET n == Len(releases)
      pos == [i \in 1..n |->
                Cardinality({j \in 1..n : releases[j].date < releases[i].date})
                + Cardinality({j \in 1..i : releases[j].date = releases[i].date})]
  IN [p \in 1..n |-> releases[CHOOSE i \in 1..n : pos[i] = p]]

\* [r for r in releases if r['date'] >= feat.ga_date]
ValidReleases(releases, feat) == SelectSeq(releases, LAMBDA r : r.date >= Instant(feat.ga_date))

\* the token set built from the title
Tokens(feat, config) ==
  LET raw_tokens == FindAllWords(Lower(feat.feature), 1, "")
      kept == raw_tokens \ config.stop_words
  IN kept \cup {SubSeq(t, 1, Len(t) - 1) : t \in {u \in kept : EndsWithS(u)}}

\* the service token: SYNONYMS.get(service_raw, service_raw)
ServiceToken(feat) == SynonymsGet(Lower(feat.service))

\* resource_guess
ResourceGuess(feat, config) == config.resource_prefix \o ServiceToken(feat)

\* hits = sum(1 for t in tokens if t in body)
Hits(tokens, body) == Cardinality({t \in tokens : Contains(body, t)})

\* a variant with one threshold for every release
ThresholdUntiered(resource_match, service_match) == 30

\* threshold, in hundredths
Threshold(resource_match, service_match) ==
  IF resource_match THEN 20 ELSE (IF service_match THEN 25 ELSE 30)

\* score >= threshold, score = hits / len(tokens) if tokens else 0.  The float
\* quotient is the correctly rounded hits/n and each threshold literal the
\* correctly rounded hundredth, so the comparison agrees with the exact one.
ScoreMeets(hits, n, threshold) ==
  IF n = 0 THEN 0 >= threshold ELSE hits * 100 >= threshold * n

\* the test of the inner loop for one release
Accepts(feat, release, config) ==
  LET body == release.body
      tokens == Tokens(feat, config)
      resource_match == Contains(body, ResourceGuess(feat, config))
      service_match == Contains(body, ServiceToken(feat))
  IN ScoreMeets(Hits(tokens, body), Cardinality(tokens),
                Threshold(resource_match, service_match))

\* the inner loop: the first release of valid_releases that is accepted, or None
BestMatch(feat, valid_releases, config) ==
  LET ok == {i \in 1..Len(valid_releases) : Accepts(feat, valid_releases[i], config)}
  IN IF ok = {} THEN None
     ELSE valid_releases[CHOOSE i \in ok : \A j \in ok : i <= j]

\* the body of the outer loop: feat after the assignments of the if/else
MatchFeature(feat, releases, config, now) ==
  LET best_match == BestMatch(feat, ValidReleases(releases, feat), config)
  IN IF best_match # None
       THEN LET lag == DeltaDays(best_match.date, Instant(feat.ga_date))
            IN [feat EXCEPT !.tf_status = "Supported",
                            !.tf_version = best_match.version,
                            !.lag_days = IF lag >= 0 THEN lag ELSE 0]
       ELSE [feat EXCEPT !.tf_status = "Not Supported",
                         !.lag_days = DeltaDays(now, Instant(feat.ga_date))]

\* a variant without the early return on an empty release list
process_features_unguarded(features, releases, cloud_name, config, now) ==
  [i \in 1..Len(features) |->
     to_dict(MatchFeature(features[i], SortReleases(releases), config, now))]

\* process_features(features, releases, cloud_name, config), run at instant now
process_features(features, releases, cloud_name, config, now) ==
  IF releases = <<>> THEN [i \in 1..Len(features) |-> to_dict(features[i])]
  ELSE LET sorted == SortReleases(releases)
       IN [i \in 1..Len(features) |->
             to_dict(MatchFeature(features[i], sorted, config, now))]

(***************************************************************************)
(* main: merge, deduplication and sort                                     *)
(***************************************************************************)
\* the record count below which main runs the deep scan
DeepScanBelow == 100

\* a variant that still scans at the mark itself
NeedsDeepScanAtMark(records) == Len(records) <= DeepScanBelow

\* run_deep_scan = len(all_records) < 100
NeedsDeepScan(records) == Len(records) < DeepScanBelow

\* a variant where the first item of a key wins
DedupFirstWins(all_records) ==
  LET n == Len(all_records)
      firsts == {i \in 1..n : \A j \in 1..(i - 1) :
                                 all_records[j].feature # all_records[i].feature}
      rank == [i \in firsts |-> Cardinality({j \in firsts : j <= i})]
  IN [p \in 1..Cardinality(firsts) |-> all_records[CHOOSE i \in firsts : rank[i] = p]]

\* a variant without the deduplication
DedupOmitted(all_records) == all_records

\* list({item['feature']: item for item in all_records}.values()): a key keeps
\* the place of its first item and the value of its last one
Dedup(all_records) ==
  LET n == Len(all_records)
      same(i) == {j \in i..n : all_records[j].feature = all_records[i].feature}
      firsts == {i \in 1..n : \A j \in 1..(i - 1) :
                                 all_records[j].feature # all_records[i].feature}
      last == [i \in firsts |-> CHOOSE j \in same(i) : \A k \in same(i) : k <= j]
      rank == [i \in firsts |-> Cardinality({j \in firsts : j <= i})]
  IN [p \in 1..Cardinality(firsts) |->
        all_records[last[CHOOSE i \in firsts : rank[i] = p]]]

\* a variant that sorts without reverse=True
SortByDateAsc(final_list) ==
  LET n == Len(final_list)
      pos == [i \in 1..n |->
                Cardinality({j \in 1..n : final_list[j].date < final_list[i].date})
                + Cardinality({j \in 1..i : final_list[j].date = final_list[i].date})]
  IN [p \in 1..n |-> final_list[CHOOSE i \in 1..n : pos[i] = p]]

\* final_list.sort(key=lambda x: x['date'], reverse=True): stable, descending
SortByDateDesc(final_list) ==
  LET n == Len(final_list)
      pos == [i \in 1..n |->
                Cardinality({j \in 1..n : final_list[j].date > final_list[i].date})
                + Cardinality({j \in 1..i : final_list[j].date = final_list[i].date})]
  IN [p \in 1..n |-> final_list[CHOOSE i \in 1..n : pos[i] = p]]

\* [f for f in new_features if f.cloud == cloud]
FeatsOf(features, cloud) == SelectSeq(features, LAMBDA f : f.cloud = cloud)

\* the features in the order main hands them to process_features
Grouped(features) ==
  FeatsOf(features, "aws") \o FeatsOf(features, "azure") \o FeatsOf(features, "gcp")

\* a variant that hands the AWS releases to every call
MatchAllAwsReleases(features, releases, now) ==
  process_features(FeatsOf(features, "aws"), releases.aws, "aws", CLOUD_CONFIG.aws, now)
  \o process_features(FeatsOf(features, "azure"), releases.aws, "azure",
                      CLOUD_CONFIG.azure, now)
  \o process_features(FeatsOf(features, "gcp"), releases.aws, "gcp", CLOUD_CONFIG.gcp, now)

\* step 4 of main, given the three release lists
MatchAll(features, releases, now) ==
  process_features(FeatsOf(features, "aws"), releases.aws, "aws", CLOUD_CONFIG.aws, now)
  \o process_features(FeatsOf(features, "azure"), releases.azure, "azure",
                      CLOUD_CONFIG.azure, now)
  \o process_features(FeatsOf(features, "gcp"), releases.gcp, "gcp", CLOUD_CONFIG.gcp, now)

NoReleases == [aws |-> <<>>, azure |-> <<>>, gcp |-> <<>>]

(***************************************************************************)
(* State.  output_file is r2c_lag_data.json; the other variables are the   *)
(* locals of the running main, pc the step it is at, clock the current     *)
(* instant.  announced is a history variable: the announcement instant of  *)
(* each persisted record, which the file itself does not hold.             *)
(***************************************************************************)
VARIABLES output_file, pc, runs, clock, all_records, run_deep_scan, new_features,
          releases, final_new_data, exit_status, announced

vars == <<output_file, pc, runs, clock, all_records, run_deep_scan, new_features,
          releases, final_new_data, exit_status, announced>>

Init ==
  /\ output_file = [exists |-> FALSE, data |-> <<>>]
  /\ pc = "idle"
  /\ runs = 0
  /\ clock = StartTime
  /\ all_records = <<>>
  /\ run_deep_scan = FALSE
  /\ new_features = <<>>
  /\ releases = NoReleases
  /\ final_new_data = <<>>
  /\ exit_status = -1
  /\ announced = <<>>

\* main, step 1 and 2: a new run starts, reads the file (a missing file reads
\* as no records) and decides on the deep scan
ReadExisting(max_runs) ==
  /\ pc = "idle"
  /\ runs < max_runs
  /\ runs' = runs + 1
  /\ clock' = clock + 1
  /\ all_records' = (IF output_file.exists THEN output_file.data ELSE <<>>)
  /\ run_deep_scan' = NeedsDeepScan(all_records')
  /\ new_features' = <<>>
  /\ releases' = NoReleases
  /\ final_new_data' = <<>>
  /\ exit_status' = -1
  /\ pc' = "fetch"
  /\ UNCHANGED <<output_file, announced>>

\* main, step 2 and 3: the deep scan when decided, then the live feeds; what
\* the fetchers return is one of fetched
FetchNewFeatures(fetched) ==
  /\ pc = "fetch"
  /\ \E got \in fetched :
       new_features' = (IF run_deep_scan THEN got.aws_archive \o got.azure_archive
                                         ELSE <<>>)
                       \o got.aws_feed \o got.azure_feed \o got.gcp_feed
  /\ pc' = "match"
  /\ UNCHANGED <<output_file, runs, clock, all_records, run_deep_scan, releases,
                 final_new_data, exit_status, announced>>

\* main, step 4: the releases are fetched and the features matched, only when
\* there are new features; what fetch_tf_releases returns is one of fetched
MatchNewFeatures(fetched) ==
  /\ pc = "match"
  /\ IF new_features = <<>>
       THEN /\ releases' = NoReleases
            /\ final_new_data' = <<>>
       ELSE \E got \in fetched :
              /\ releases' = got
              /\ final_new_data' = MatchAll(new_features, got, clock)
  /\ pc' = "merge"
  /\ UNCHANGED <<output_file, runs, clock, all_records, run_deep_scan, new_features,
                 exit_status, announced>>

\* the announcement instants behind the records of the merged list: that of
\* the last new feature that became the record, else the one already recorded
AnnouncedOf(final_list, new_data, grouped) ==
  LET from_new(item) == {k \in 1..Len(new_data) : new_data[k] = item}
      newest(item) == CHOOSE k \in from_new(item) : \A j \in from_new(item) : j <= k
      old(item) == CHOOSE j \in 1..Len(output_file.data) : output_file.data[j] = item
  IN [i \in 1..Len(final_list) |->
        IF from_new(final_list[i]) # {}
          THEN Instant(grouped[newest(final_list[i])].ga_date)
          ELSE announced[old(final_list[i])]]

\* main, step 5: merge, deduplicate, sort, write; main returns and the process
\* exits with status 0
MergeAndWrite ==
  /\ pc = "merge"
  /\ all_records' = all_records \o final_new_data
  /\ LET final_list == SortByDateDesc(Dedup(all_records \o final_new_data))
     IN /\ output_file' = [exists |-> TRUE, data |-> final_list]
        /\ announced' = AnnouncedOf(final_list, final_new_data, Grouped(new_features))
  /\ exit_status' = 0
  /\ pc' = "idle"
  /\ UNCHANGED <<runs, clock, run_deep_scan, new_features, releases, final_new_data>>

(***************************************************************************)
(* What the fetchers can return.  Each feature is built as the fetchers    *)
(* build it, by FeatureRecord, with the service label their heuristics     *)
(* give: the live feeds of AWS and Azure give "" when the provider's name  *)
(* is followed by a word (the lazy group ends at the first word boundary)  *)
(* and "General" when the name is absent, the GCP feed gives the text      *)
(* before the colon, the AWS archive the word after "Amazon ".  A release  *)
(* is [version, date, body], date its instant and body lower-cased.        *)
(***************************************************************************)
Naive(wall) == [wall |-> wall, tzinfo |-> <<>>]

Aware(wall, off) == [wall |-> wall, tzinfo |-> <<off>>]

Release(version, date, body) == [version |-> version, date |-> date, body |-> body]

\* fetch_aws_archive: the archived announcement, dated the first of its month
AwsArchive(now) ==
  <<FeatureRecord("aws", "EKS", "Amazon EKS now supports pods", Aware(0, 0),
                  "https://aws.amazon.com/about-aws/whats-new/2024/01/eks-pods", now)>>

\* fetch_feed_with_failover("aws"): titles of no, five, four and four tokens
\* (eks counts twice, as eks and ek)
AwsFeedA(now) ==
  <<FeatureRecord("aws", "", "Amazon now available with new capabilities", Naive(5),
                  "https://aws.amazon.com/new/ga", now),
    FeatureRecord("aws", "General", "AWS Glue crawler schema detection tuning",
                  Aware(4, 1), "https://aws.amazon.com/new/glue-5", now),
    FeatureRecord("aws", "General", "AWS Glue crawler schema tuning",
                  Aware(3, -1), "https://aws.amazon.com/new/glue-4", now),
    FeatureRecord("aws", "", "Amazon EKS now supports pods", Naive(3),
                  "https://aws.amazon.com/new/eks-pods", now)>>

\* fetch_feed_with_failover("aws"): a title met before, updated since; a naive
\* wall-clock reading that is ahead of UTC
AwsFeedB(now) ==
  <<FeatureRecord("aws", "", "Amazon EKS now supports pods", Aware(7, 1),
                  "https://aws.amazon.com/new/eks-pods-2", now),
    FeatureRecord("aws", "", "Amazon S3 Tables", Naive(now + 1),
                  "https://aws.amazon.com/new/s3-tables", now)>>

\* fetch_feed_with_failover("azure"): titles of five and no tokens
AzureFeed(now) ==
  <<FeatureRecord("azure", "", "Azure Kubernetes Service node pools", Naive(2),
                  "https://azure.microsoft.com/updates/aks", now),
    FeatureRecord("azure", "", "Microsoft Azure updates", Aware(6, 0),
                  "https://azure.microsoft.com/updates/all", now)>>

\* fetch_feed_with_failover("gcp"): titles of five and three tokens
GcpFeed(now) ==
  <<FeatureRecord("gcp", "BigQuery", "BigQuery: table schema detection tuning",
                  Aware(6, 1), "https://cloud.google.com/bigquery/notes", now),
    FeatureRecord("gcp", "Cloud Run", "Cloud Run: jobs GA", Aware(6, 1),
                  "https://cloud.google.com/run/jobs", now)>>

\* fetch_tf_releases("hashicorp/terraform-provider-aws"), as the API lists them
AwsReleasesA ==
  <<Release("v5.3.0", 8, "aws_eks_cluster: pods tuning"),
    Release("v5.2.0", 6, "eks tuning"),
    Release("v5.1.0", 1, "aws_eks pods glue crawler schema detection tuning")>>

AwsReleasesB ==
  <<Release("v6.1.0", 6, "tuning for pod"),
    Release("v6.0.0", 6, "pods fixes"),
    Release("v6.2.0", 9, "general fixes for tuning")>>

AzureReleases ==
  <<Release("v3.1.0", 5, "azurerm_kubernetes_cluster: node pool")>>

GcpReleases ==
  <<Release("v7.1.0", 8, "google_cloud_run_v2_job: pod settings"),
    Release("v7.0.0", 7, "google_bigquery_dataset: fix"),
    Release("v6.9.0", 6, "bigquery fix")>>

NoFeatures ==
  [aws_archive |-> <<>>, azure_archive |-> <<>>, aws_feed |-> <<>>,
   azure_feed |-> <<>>, gcp_feed |-> <<>>]

\* what the archive scans and the feeds return in a run at instant now: nothing;
\* everything; the other AWS feed with a failed archive; AWS alone; the
\* archive alone
Fetched(now) ==
  {NoFeatures,
   [aws_archive |-> AwsArchive(now), azure_archive |-> <<>>, aws_feed |-> AwsFeedA(now),
    azure_feed |-> AzureFeed(now), gcp_feed |-> GcpFeed(now)],
   [NoFeatures EXCEPT !.aws_feed = AwsFeedB(now), !.azure_feed = AzureFeed(now),
                      !.gcp_feed = GcpFeed(now)],
   [NoFeatures EXCEPT !.aws_feed = AwsFeedA(now)],
   [NoFeatures EXCEPT !.aws_archive = AwsArchive(now)]}

\* what fetch_tf_releases returns for the three repositories: every list, with
\* either AWS list; one repository failing; all failing
FetchedReleases ==
  {[aws |-> AwsReleasesA, azure |-> AzureReleases, gcp |-> GcpReleases],
   [aws |-> AwsReleasesB, azure |-> AzureReleases, gcp |-> GcpReleases],
   [aws |-> <<>>, azure |-> AzureReleases, gcp |-> GcpReleases],
   [aws |-> AwsReleasesA, azure |-> <<>>, gcp |-> GcpReleases],
   [aws |-> AwsReleasesB, azure |-> AzureReleases, gcp |-> <<>>],
   NoReleases}

Next ==
  \/ ReadExisting(MaxRuns)
  \/ FetchNewFeatures(Fetched(clock))
  \/ MatchNewFeatures(FetchedReleases)
  \/ MergeAndWrite

Spec == Init /\ [][Next]_vars

(***************************************************************************)
(* The same program on archives large enough to pass the deep-scan mark.   *)
(***************************************************************************)
\* items first..last of an archive scan or a feed, titled by name and number
Bulk(cloud, service, name, first, last, now) ==
  [i \in 1..(last - first + 1) |->
     FeatureRecord(cloud, service, name \o ToString(first + i - 1),
                   Aware(0, 0), "https://example.com/" \o ToString(first + i - 1), now)]

\* AWS archive items 1..60, Azure archive items 61..100, and the 35 entries
\* 41..75 of a live feed (feed.entries[:35])
BulkFetched(now) ==
  {NoFeatures,
   [NoFeatures EXCEPT !.aws_archive = Bulk("aws", "S3", "Amazon S3 item ", 1, 60, now)],
   [NoFeatures EXCEPT !.azure_archive = Bulk("azure", "", "Azure Blob item ", 61, 100, now)],
   [NoFeatures EXCEPT !.aws_feed = Bulk("aws", "", "Amazon S3 item ", 41, 75, now)]}

BulkReleases ==
  {[aws |-> <<Release("v5.9.0", 4, "aws_s3_bucket: item")>>, azure |-> <<>>, gcp |-> <<>>]}

NextBulk ==
  \/ ReadExisting(MaxBulkRuns)
  \/ FetchNewFeatures(BulkFetched(clock))
  \/ MatchNewFeatures(BulkReleases)
  \/ MergeAndWrite

SpecBulk == Init /\ [][NextBulk]_vars

(***************************************************************************)
(* Properties.  After step 4 (pc = "merge", and "idle" once the run has    *)
(* ended) final_new_data[k] is the record made of Grouped(new_features)[k] *)
(* and releases holds the release lists of the run.                        *)
(***************************************************************************)
Processed == IF pc \in {"merge", "idle"} THEN 1..Len(final_new_data) ELSE {}

FeatureAt(k) == Grouped(new_features)[k]

ReleasesAt(k) == releases[FeatureAt(k).cloud]

ConfigAt(k) == CLOUD_CONFIG[FeatureAt(k).cloud]

\* the releases of the feature's cloud published at or after the announcement
\* that the matcher accepts
Acceptable(k) ==
  {i \in 1..Len(ReleasesAt(k)) :
     /\ ReleasesAt(k)[i].date >= Instant(FeatureAt(k).ga_date)
     /\ Accepts(FeatureAt(k), ReleasesAt(k)[i], ConfigAt(k))}

\* hits * 100 / |tokens| of feature k against release i, kept as the pair
HitsAt(k, i) == Hits(Tokens(FeatureAt(k), ConfigAt(k)), ReleasesAt(k)[i].body)

\* C1: with a non-empty release list, a feature is matched exactly when some
\* release published at or after its announcement is acceptable, and then to
\* an acceptable release of the earliest date, whatever the order the releases
\* came in and whatever the later releases score.
C1_EarliestSufficient ==
  \A k \in Processed :
    ReleasesAt(k) # <<>> =>
      IF Acceptable(k) = {}
        THEN final_new_data[k].status = "Not Supported"
        ELSE /\ final_new_data[k].status = "Supported"
             /\ \E i \in Acceptable(k) :
                  /\ final_new_data[k].version = ReleasesAt(k)[i].version
                  /\ \A j \in Acceptable(k) : ReleasesAt(k)[i].date <= ReleasesAt(k)[j].date

\* a feature matched to a release that was supplied after a later, acceptable
\* and higher-scoring release
C1_Witness ==
  \E k \in Processed : \E i, j \in Acceptable(k) :
    /\ final_new_data[k].status = "Supported"
    /\ final_new_data[k].version = ReleasesAt(k)[i].version
    /\ ReleasesAt(k)[j].date > ReleasesAt(k)[i].date
    /\ HitsAt(k, j) > HitsAt(k, i)
    /\ j < i

\* the threshold of the specification, in hundredths
TierOf(k, i) ==
  IF Contains(ReleasesAt(k)[i].body, ResourceGuess(FeatureAt(k), ConfigAt(k))) THEN 20
  ELSE IF Contains(ReleasesAt(k)[i].body, ServiceToken(FeatureAt(k))) THEN 25
  ELSE 30

TokenCount(k) == Cardinality(Tokens(FeatureAt(k), ConfigAt(k)))

\* score >= threshold, as the specification states it
MeetsTier(k, i) == TokenCount(k) > 0 /\ HitsAt(k, i) * 100 >= TierOf(k, i) * TokenCount(k)

Candidates(k) ==
  {i \in 1..Len(ReleasesAt(k)) : ReleasesAt(k)[i].date >= Instant(FeatureAt(k).ga_date)}

\* C2: a candidate release is accepted iff hits/|tokens| reaches 0.20 with the
\* resource-name guess in its body, else 0.25 with the service token in it,
\* else 0.30: a feature is Supported exactly when some candidate meets its
\* tier, the release it carries meets its tier and no candidate published
\* before that release does; a feature without tokens is never Supported.
C2_ThresholdTiers ==
  \A k \in Processed :
    ReleasesAt(k) # <<>> =>
      /\ final_new_data[k].status = "Supported" <=> \E i \in Candidates(k) : MeetsTier(k, i)
      /\ final_new_data[k].status = "Supported" =>
           \E i \in Candidates(k) :
             /\ final_new_data[k].version = ReleasesAt(k)[i].version
             /\ MeetsTier(k, i)
             /\ \A j \in Candidates(k) :
                  ReleasesAt(k)[j].date < ReleasesAt(k)[i].date => ~MeetsTier(k, j)
      /\ TokenCount(k) = 0 => final_new_data[k].status = "Not Supported"

\* the score of feature k against release i lies in [0.20, 0.30)
InBand(k, i) ==
  /\ TokenCount(k) > 0
  /\ HitsAt(k, i) * 100 >= 20 * TokenCount(k)
  /\ HitsAt(k, i) * 100 < 30 * TokenCount(k)

\* in one run: a feature matched to a release of score in [0.20, 0.30) that
\* names the resource; a feature left unmatched whose candidates include one
\* of score in [0.20, 0.30) without any anchor; and a feature without tokens
\* left unmatched although a candidate names its resource
C2_Witness ==
  /\ \E k \in Processed : \E i \in Candidates(k) :
       /\ final_new_data[k].status = "Supported"
       /\ final_new_data[k].version = ReleasesAt(k)[i].version
       /\ TierOf(k, i) = 20 /\ InBand(k, i)
  /\ \E k \in Processed : \E i \in Candidates(k) :
       /\ final_new_data[k].status = "Not Supported"
       /\ TierOf(k, i) = 30 /\ InBand(k, i)
  /\ \E k \in Processed : \E i \in Candidates(k) :
       /\ final_new_data[k].status = "Not Supported"
       /\ TokenCount(k) = 0 /\ TierOf(k, i) = 20

\* the clouds that had features to match and an empty release list
Degraded == {c \in {"aws", "azure", "gcp"} : FeatsOf(new_features, c) # <<>> /\ releases[c] = <<>>}

\* C7 as claimed: with an empty release list every record is Not Supported
\* with lag the whole days from the announcement to now.
C7_LagSinceAnnouncement ==
  \A k \in Processed :
    ReleasesAt(k) = <<>> =>
      /\ final_new_data[k].status = "Not Supported"
      /\ final_new_data[k].lag = DeltaDays(clock, Instant(FeatureAt(k).ga_date))

\* C7, amended: with an empty release list every record is Not Supported,
\* carries the version sentinel and has lag 0.
C7_EmptyReleasesPassThrough ==
  \A k \in Processed :
    ReleasesAt(k) = <<>> =>
      /\ final_new_data[k].status = "Not Supported"
      /\ final_new_data[k].version = "--"
      /\ final_new_data[k].lag = 0

\* a feature announced more than a day before now went through
\* process_features with an empty release list
C7_Witness ==
  \E k \in Processed :
    /\ ReleasesAt(k) = <<>>
    /\ DeltaDays(clock, Instant(FeatureAt(k).ga_date)) >= 1
    /\ final_new_data[k].lag = 0

\* C8 as claimed: every record made by process_features has a lag >= 0, and a
\* matched one the clamped whole days from announcement to release.
C8_LagNonNegative ==
  \A k \in Processed :
    /\ final_new_data[k].lag >= 0
    /\ final_new_data[k].status = "Supported" =>
         \E i \in Candidates(k) :
           /\ final_new_data[k].version = ReleasesAt(k)[i].version
           /\ final_new_data[k].lag =
                (IF DeltaDays(ReleasesAt(k)[i].date, Instant(FeatureAt(k).ga_date)) >= 0
                   THEN DeltaDays(ReleasesAt(k)[i].date, Instant(FeatureAt(k).ga_date))
                   ELSE 0)

\* C10: a Supported record carries the version of a release of its own cloud
\* published at or after its announcement, a Not Supported record the version
\* sentinel, and whether a feature is Supported depends on the release list of
\* its own cloud alone, whatever the lists of the other clouds are.
C10_OwnCloudOnly ==
  \A k \in Processed :
    /\ final_new_data[k].cloud = FeatureAt(k).cloud
    /\ final_new_data[k].status \in {"Supported", "Not Supported"}
    /\ final_new_data[k].status = "Supported" =>
         \E i \in Candidates(k) : final_new_data[k].version = ReleasesAt(k)[i].version
    /\ final_new_data[k].status = "Not Supported" => final_new_data[k].version = "--"
    /\ final_new_data[k].status = "Supported" <=> Acceptable(k) # {}

\* one cloud had features and no releases while a feature of another cloud
\* was matched, and some release of a third list would have been accepted for
\* a feature of the cloud without releases
C10_Witness ==
  /\ \E k \in Processed : final_new_data[k].status = "Supported"
  /\ \E k \in Processed :
       /\ FeatureAt(k).cloud \in Degraded
       /\ \E c \in {"aws", "azure", "gcp"} : \E i \in 1..Len(releases[c]) :
            /\ releases[c][i].date >= Instant(FeatureAt(k).ga_date)
            /\ Accepts(FeatureAt(k), releases[c][i], ConfigAt(k))

(***************************************************************************)
(* Once a run has ended (pc = "idle", runs > 0) all_records is the list    *)
(* read from the file followed by final_new_data, and output_file the list *)
(* written.                                                                *)
(***************************************************************************)
RunEnded == pc = "idle" /\ runs > 0

\* the records the run read from the file
Existing == SubSeq(all_records, 1, Len(all_records) - Len(final_new_data))

Titles(records) == {records[i].feature : i \in 1..Len(records)}

WithTitle(records, title) == {i \in 1..Len(records) : records[i].feature = title}

\* the last of the run's new records to carry the title
LastNew(title) ==
  final_new_data[CHOOSE k \in WithTitle(final_new_data, title) :
                   \A m \in WithTitle(final_new_data, title) : m <= k]

\* C3: when a record read from the file and a new record of the run share a
\* title, the output holds exactly one record of that title, and it is the new
\* record in every field (the last one, should the run have made several).
C3_LastNewOverwrites ==
  RunEnded =>
    \A i \in 1..Len(Existing) :
      WithTitle(final_new_data, Existing[i].feature) # {} =>
        /\ Cardinality(WithTitle(output_file.data, Existing[i].feature)) = 1
        /\ \A j \in WithTitle(output_file.data, Existing[i].feature) :
             output_file.data[j] = LastNew(Existing[i].feature)

\* an existing record was overwritten by a new record that differs from it,
\* the last of two new records of that title
C3_Witness ==
  /\ RunEnded
  /\ \E i \in 1..Len(Existing) : \E k, m \in 1..Len(final_new_data) :
       /\ k < m
       /\ Existing[i].feature = final_new_data[m].feature
       /\ final_new_data[k].feature = final_new_data[m].feature
       /\ final_new_data[k] # final_new_data[m]
       /\ Existing[i] # final_new_data[m]
       /\ \E j \in 1..Len(output_file.data) : output_file.data[j] = final_new_data[m]

NoDuplicateTitles(records) ==
  \A i, j \in 1..Len(records) : records[i].feature = records[j].feature => i = j

\* C4: every step leaves the file without two records of one title, with
\* every title it held before, and with no fewer records.
C4_NoLossNoDuplicate ==
  [][/\ NoDuplicateTitles(output_file'.data)
     /\ Titles(output_file.data) \subseteq Titles(output_file'.data)
     /\ Len(output_file.data) <= Len(output_file'.data)]_vars

\* a later run wrote a file that holds a title it only read, and a title that
\* it read and also reconciled anew
C4_Witness ==
  /\ RunEnded /\ runs >= 2
  /\ Titles(Existing) \ Titles(final_new_data) # {}
  /\ Titles(Existing) \cap Titles(final_new_data) # {}
  /\ Titles(final_new_data) \ Titles(Existing) # {}
  /\ Titles(output_file.data) = Titles(Existing) \cup Titles(final_new_data)

\* C6 as claimed: a run that ends with no record at all exits non-zero, a run
\* that writes at least one record exits zero.
C6_ExitStatus ==
  RunEnded =>
    IF Len(output_file.data) = 0 THEN exit_status # 0 ELSE exit_status = 0

\* C9 as claimed: the written list is non-increasing by announcement instant.
C9_SortedByInstant ==
  \A i \in 1..(Len(announced) - 1) : announced[i] >= announced[i + 1]

\* C9, amended: the written list is non-increasing by its date field, the
\* calendar day of the announcement's own wall clock.
C9_SortedByDate ==
  \A i \in 1..(Len(output_file.data) - 1) :
    output_file.data[i].date >= output_file.data[i + 1].date

\* a file of old and new records, where the order of the dates is not the
\* order the records came in
C9_Witness ==
  /\ RunEnded /\ runs >= 2
  /\ Titles(Existing) \ Titles(final_new_data) # {}
  /\ \E i, j \in 1..Len(all_records) : i < j /\ all_records[i].date < all_records[j].date
  /\ \E i \in 1..(Len(announced) - 1) :
       /\ output_file.data[i].date > output_file.data[i + 1].date
       /\ announced[i] < announced[i + 1]

\* the entries of the live feeds, in the runs on large archives
BulkFeedEntries ==
  UNION {{got.aws_feed[i] : i \in 1..Len(got.aws_feed)} \cup
         {got.azure_feed[i] : i \in 1..Len(got.azure_feed)} \cup
         {got.gcp_feed[i] : i \in 1..Len(got.gcp_feed)} : got \in BulkFetched(clock)}

\* C5: a run scans the archives exactly when it read fewer than 100 records
\* (without the scan its new features are live feed entries only), and once
\* the file holds 100 records it keeps at least 100 and no run scans again.
C5_OneShotBackfill ==
  /\ [](pc \in {"fetch", "match", "merge"} =>
          (run_deep_scan <=> Len(output_file.data) < 100))
  /\ [](pc \in {"match", "merge"} /\ ~run_deep_scan =>
          \A i \in 1..Len(new_features) : new_features[i] \in BulkFeedEntries)
  /\ [][Len(output_file.data) >= 100 =>
          Len(output_file'.data) >= 100 /\ ~run_deep_scan']_vars

\* a run that read 100 records, did not scan, and fetched live entries
C5_Witness ==
  /\ pc = "merge"
  /\ Len(output_file.data) >= 100
  /\ ~run_deep_scan
  /\ new_features # <<>>

=============================================================================
